---------------------------- MODULE Spec2Model ----------------------------
(***************************************************************************)
(* RecordDB<T> (src/RecordDB.h): a flat file of fixed-size records          *)
(* [char key[32]][T data][uint8_t crc] kept on a flash filesystem.          *)
(*                                                                         *)
(* The filesystem is a function from path to the file's bytes (or NoFile).  *)
(* A record is the byte image of struct Record as the build lays it out:    *)
(* the template parameter T decides sizeof(Record) and whether padding      *)
(* follows the crc byte, so T is chosen in Init among two instantiations,   *)
(* uint8_t (no padding) and uint16_t (one padding byte after crc).          *)
(*                                                                         *)
(* Each method is an operator from the files to the files and the result,   *)
(* and an action that applies it (Spec, SpecCounted, SpecOrder).  The       *)
(* environment flips stored bytes and tears appends (SpecEnv, SpecRead) or  *)
(* fails file operations (SpecIO).  insert and remove are also given one    *)
(* file operation at a time, for execution stopping inside a call           *)
(* (SpecCrash) and for two callers (SpecSteps, SpecSerial).                 *)
(***************************************************************************)
EXTENDS Integers, Sequences, FiniteSets, TLC

VARIABLES
    T,        \* the instantiation: [size, align] of the payload type
    fs,       \* SPIFFS: path -> bytes of the file, or NoFile
    prev,     \* fs as it was when the last call started
    last,     \* the last call and what the caller saw of it (see Call)
    nIns,     \* insert calls that returned true (counted in SpecCounted)
    nRem,     \* remove calls that returned true (counted in SpecCounted)
    nEnv,     \* environment events so far: [flips, torn, io, calls, crashes]
    faults,   \* what the file operations of the last call did (see NoFault)
    proc,     \* per caller: where its call stands and the call's locals
    acked     \* per key: the value of the last insert that returned true,
              \* NoData once a remove of the key returned true

vars == <<T, fs, prev, last, nIns, nRem, nEnv, faults, proc, acked>>

----------------------------------------------------------------------------
(* Bounds of the model *)

\* insert is not called once the store file holds this many record slots
MaxSlots == 3
\* SpecCounted stops counting after this many calls that returned true
MaxOps == 4
\* with the environment acting, insert is not called once the store file
\* holds this many record slots
MaxEnvSlots == 3
\* the environment flips a stored byte at most this many times
MaxFlips == 1
\* the environment tears an append at most this many times
MaxTorn == 1
\* at most this many calls have a file operation that fails
MaxFaults == 1
\* calls started where calls run one file operation at a time
MaxCalls == 3
\* execution stops in the middle of a call at most this many times
MaxCrashes == 1

----------------------------------------------------------------------------
(* Program constants *)

\* char key[32]
KeyCap == 32
\* CRC8 polynomial x^8 + x^2 + x + 1
Poly == 7
\* uint8_t
ByteMod == 256

dbPath == "/db"
tempPath == "/temp.db"
Paths == {dbPath, tempPath}
NoFile == [nofile |-> TRUE]

----------------------------------------------------------------------------
(* Inputs *)

\* const char* key: a null pointer, or a NUL-terminated string (its chars)
NullKey == [null |-> TRUE, chars |-> <<>>]
Str(s) == [null |-> FALSE, chars |-> s]
KeyA == Str(<<97>>)
KeyB == Str(<<98>>)
KeyC == Str(<<99>>)
\* a key of strlen 32
Key32 == Str([i \in 1..KeyCap |-> 120])
GoodKeys == {KeyA, KeyB}
\* three keys, for the order of the records in the file
OrderKeys == GoodKeys \cup {KeyC}
Keys == GoodKeys \cup {NullKey, Key32}

\* the instantiations of T: uint8_t and uint16_t
TypeU8 == [size |-> 1, align |-> 1]
TypeU16 == [size |-> 2, align |-> 2]
Types == {TypeU8, TypeU16}

\* values of T.  For uint16_t, 34561 is the value whose record has crc 0
\* under key "a", and 41729 the one whose record has crc 0 under key "b".
Values(t) == IF t = TypeU8 THEN {1, 2} ELSE {34561, 41729}

----------------------------------------------------------------------------
(* Bytes *)

RECURSIVE Xor(_, _)
\* a ^ b on non-negative integers
Xor(a, b) ==
    IF a = 0 THEN b
    ELSE IF b = 0 THEN a
    ELSE ((a + b) % 2) + 2 * Xor(a \div 2, b \div 2)

RECURSIVE Pow(_, _)
Pow(b, n) == IF n = 0 THEN 1 ELSE b * Pow(b, n - 1)

\* the byte image of an unsigned value of n bytes (little-endian build)
Encode(v, n) == [i \in 1..n |-> (v \div Pow(ByteMod, i - 1)) % ByteMod]

RECURSIVE Decode(_)
Decode(bytes) ==
    IF bytes = <<>> THEN 0 ELSE Head(bytes) + ByteMod * Decode(Tail(bytes))

Zeros(n) == [i \in 1..n |-> 0]

----------------------------------------------------------------------------
(* struct Record *)

\* sizeof(Record): key, data and crc, rounded up to the alignment of T
sizeofRecord(t) ==
    LET raw == KeyCap + t.size + 1
    IN  ((raw + t.align - 1) \div t.align) * t.align

\* offsetof(Record, crc), as a 1-based index into the byte image
crcIndex(t) == KeyCap + t.size + 1

RECURSIVE crcShift(_, _)
\* the inner loop of computeCRC: j shifts of a uint8_t
crcShift(crc, j) ==
    IF j = 0 THEN crc
    ELSE crcShift(IF crc >= 128
                  THEN Xor((crc * 2) % ByteMod, Poly)
                  ELSE (crc * 2) % ByteMod, j - 1)

\* the eight shifts of every byte value
crcTable == [c \in 0..(ByteMod - 1) |-> crcShift(c, 8)]

RECURSIVE crcLoop(_, _, _, _)
\* the outer loop of computeCRC over p[i..len]
crcLoop(p, i, len, crc) ==
    IF i > len THEN crc
    ELSE crcLoop(p, i + 1, len, crcTable[Xor(crc, p[i])])

\* computeCRC: the first sizeof(Record) - 1 bytes of the record
computeCRC(rec) == crcLoop(rec, 1, Len(rec) - 1, 0)

\* strlcpy(rec.key, key, 32) into the zeroed buffer
keyBuf(chars) ==
    [i \in 1..KeyCap |->
        IF i <= Len(chars) /\ i <= KeyCap - 1 THEN chars[i] ELSE 0]

\* the record insert builds: memset 0, key, data, then crc
makeRecord(t, key, data) ==
    LET rec0 == keyBuf(key.chars) \o Encode(data, t.size)
                \o Zeros(sizeofRecord(t) - KeyCap - t.size)
    IN  [rec0 EXCEPT ![crcIndex(t)] = computeCRC(rec0)]

\* computeCRC(&rec) != rec.crc is false
crcOk(t, rec) == computeCRC(rec) = rec[crcIndex(t)]

RECURSIVE cstr(_, _)
\* the C string that starts at p[i]: the bytes before the first NUL
cstr(p, i) ==
    IF i > Len(p) \/ p[i] = 0 THEN <<>> ELSE <<p[i]>> \o cstr(p, i + 1)

\* strcmp(rec.key, key) == 0
keyEq(rec, key) == cstr(rec, 1) = key.chars

\* rec.data
dataOf(t, rec) == Decode(SubSeq(rec, KeyCap + 1, KeyCap + t.size))

----------------------------------------------------------------------------
(* The filesystem collaborator *)

\* what a call's file operations do: which opens succeed, how many bytes a
\* write of one record transfers (wrote: dst.write in remove, appended:
\* file.write in insert), whether delete and rename succeed
NoFault(t) ==
    [openR |-> TRUE, openW |-> TRUE, openA |-> TRUE,
     wrote |-> sizeofRecord(t), appended |-> sizeofRecord(t),
     del |-> TRUE, ren |-> TRUE]

\* the records a read loop sees: file.read(...) == sizeof(Record) holds for
\* every full slot, and fails at the first short read
readSlots(t, bytes) ==
    [i \in 1..(Len(bytes) \div sizeofRecord(t)) |->
        SubSeq(bytes, (i - 1) * sizeofRecord(t) + 1, i * sizeofRecord(t))]

\* file.write(&rec, sizeof(Record)) transferring n bytes
written(rec, n) == SubSeq(rec, 1, n)

\* SPIFFS.remove(path)
fsRemove(f, path, ok) ==
    IF ok /\ f[path] # NoFile THEN [f EXCEPT ![path] = NoFile] ELSE f

\* SPIFFS.rename(from, to): fails when from is missing or to exists
fsRename(f, from, to, ok) ==
    IF ok /\ f[from] # NoFile /\ f[to] = NoFile
    THEN [f EXCEPT ![to] = f[from], ![from] = NoFile]
    ELSE f

----------------------------------------------------------------------------
(* RecordDB *)

NoData == 0 - 1

\* The calls on SPIFFS and on file handles (open, write, close, remove,
\* rename) a method makes are listed in the order it makes them, as `ops`;
\* the reads of its scan loop are left out of the list.
NoOps == <<>>

RECURSIVE queryLoop_stopsAtCorrupt(_, _, _, _)
\* the loop of query leaving at the first checksum-invalid slot (break for
\* continue)
queryLoop_stopsAtCorrupt(t, slots, i, key) ==
    IF i > Len(slots) THEN [ret |-> FALSE, data |-> NoData]
    ELSE IF ~crcOk(t, slots[i]) THEN [ret |-> FALSE, data |-> NoData]
    ELSE IF keyEq(slots[i], key)
         THEN [ret |-> TRUE, data |-> dataOf(t, slots[i])]
         ELSE queryLoop_stopsAtCorrupt(t, slots, i + 1, key)

RECURSIVE queryLoop(_, _, _, _)
\* the while loop of query over slots[i..]
queryLoop(t, slots, i, key) ==
    IF i > Len(slots) THEN [ret |-> FALSE, data |-> NoData]
    ELSE IF ~crcOk(t, slots[i]) THEN queryLoop(t, slots, i + 1, key)
    ELSE IF keyEq(slots[i], key)
         THEN [ret |-> TRUE, data |-> dataOf(t, slots[i])]
         ELSE queryLoop(t, slots, i + 1, key)

\* bool query(const char* key, T& data)
query(t, f, key, io) ==
    IF key.null THEN [ret |-> FALSE, data |-> NoData, ops |-> NoOps]
    ELSE IF f[dbPath] = NoFile \/ ~io.openR
         THEN [ret |-> FALSE, data |-> NoData, ops |-> <<"open(dbPath,r)">>]
         ELSE LET r == queryLoop(t, readSlots(t, f[dbPath]), 1, key)
              IN  [ret |-> r.ret, data |-> r.data,
                   ops |-> <<"open(dbPath,r)", "close(file)">>]

\* bool exists(const char* key)
exists(t, f, key, io) == query(t, f, key, io).ret

RECURSIVE removeLoop_keepsMatch(_, _, _, _, _, _)
\* the loop of remove copying the matching records to dst as well
removeLoop_keepsMatch(t, slots, i, key, wrote, acc) ==
    IF i > Len(slots) THEN acc
    ELSE IF ~crcOk(t, slots[i])
         THEN removeLoop_keepsMatch(t, slots, i + 1, key, wrote, acc)
         ELSE removeLoop_keepsMatch(t, slots, i + 1, key, wrote,
                  [acc EXCEPT !.dst = @ \o written(slots[i], wrote),
                              !.ops = Append(@, "write(dst)"),
                              !.found = @ \/ keyEq(slots[i], key)])

RECURSIVE removeLoop_noCrc(_, _, _, _, _, _)
\* the loop of remove without its checksum test: every slot whose key
\* differs is copied
removeLoop_noCrc(t, slots, i, key, wrote, acc) ==
    IF i > Len(slots) THEN acc
    ELSE IF ~keyEq(slots[i], key)
         THEN removeLoop_noCrc(t, slots, i + 1, key, wrote,
                  [acc EXCEPT !.dst = @ \o written(slots[i], wrote),
                              !.ops = Append(@, "write(dst)")])
         ELSE removeLoop_noCrc(t, slots, i + 1, key, wrote,
                               [acc EXCEPT !.found = TRUE])

RECURSIVE removeLoop_reversed(_, _, _, _, _, _)
\* the loop of remove writing each kept record in front of those it has
\* written
removeLoop_reversed(t, slots, i, key, wrote, acc) ==
    IF i > Len(slots) THEN acc
    ELSE IF ~crcOk(t, slots[i])
         THEN removeLoop_reversed(t, slots, i + 1, key, wrote, acc)
    ELSE IF ~keyEq(slots[i], key)
         THEN removeLoop_reversed(t, slots, i + 1, key, wrote,
                  [acc EXCEPT !.dst = written(slots[i], wrote) \o @,
                              !.ops = Append(@, "write(dst)")])
         ELSE removeLoop_reversed(t, slots, i + 1, key, wrote,
                                  [acc EXCEPT !.found = TRUE])

RECURSIVE removeLoop(_, _, _, _, _, _)
\* the while loop of remove over slots[i..]: dst's bytes and found
removeLoop(t, slots, i, key, wrote, acc) ==
    IF i > Len(slots) THEN acc
    ELSE IF ~crcOk(t, slots[i])
         THEN removeLoop(t, slots, i + 1, key, wrote, acc)
    ELSE IF ~keyEq(slots[i], key)
         THEN removeLoop(t, slots, i + 1, key, wrote,
                         [acc EXCEPT !.dst = @ \o written(slots[i], wrote),
                                     !.ops = Append(@, "write(dst)")])
         ELSE removeLoop(t, slots, i + 1, key, wrote,
                         [acc EXCEPT !.found = TRUE])

\* remove replacing the store file by the temporary file whether or not a
\* record was found
remove_alwaysReplaces(t, f, key, io) ==
    IF key.null THEN [fs |-> f, ret |-> FALSE, ops |-> NoOps]
    ELSE IF f[dbPath] = NoFile \/ ~io.openR
         THEN [fs |-> f, ret |-> FALSE, ops |-> <<"open(dbPath,r)">>]
    ELSE IF ~io.openW
         THEN [fs |-> f, ret |-> FALSE,
               ops |-> <<"open(dbPath,r)", "open(temp,w)", "close(src)">>]
    ELSE
        LET scan == removeLoop(t, readSlots(t, f[dbPath]), 1, key, io.wrote,
                               [dst |-> <<>>, found |-> FALSE,
                                ops |-> <<"open(dbPath,r)", "open(temp,w)">>])
            f1 == [f EXCEPT ![tempPath] = scan.dst]
        IN  [fs |-> fsRename(fsRemove(f1, dbPath, io.del),
                             tempPath, dbPath, io.ren),
             ret |-> scan.found,
             ops |-> scan.ops \o <<"close(src)", "close(dst)",
                                   "remove(dbPath)", "rename(temp,dbPath)">>]

\* remove returning without src.close() when /temp.db cannot be opened
remove_leaksSrc(t, f, key, io) ==
    IF key.null THEN [fs |-> f, ret |-> FALSE, ops |-> NoOps]
    ELSE IF f[dbPath] = NoFile \/ ~io.openR
         THEN [fs |-> f, ret |-> FALSE, ops |-> <<"open(dbPath,r)">>]
    ELSE IF ~io.openW
         THEN [fs |-> f, ret |-> FALSE,
               ops |-> <<"open(dbPath,r)", "open(temp,w)">>]
    ELSE
        LET scan == removeLoop(t, readSlots(t, f[dbPath]), 1, key, io.wrote,
                               [dst |-> <<>>, found |-> FALSE,
                                ops |-> <<"open(dbPath,r)", "open(temp,w)">>])
            f1 == [f EXCEPT ![tempPath] = scan.dst]
            closed == scan.ops \o <<"close(src)", "close(dst)">>
        IN  IF scan.found
            THEN [fs |-> fsRename(fsRemove(f1, dbPath, io.del),
                                  tempPath, dbPath, io.ren),
                  ret |-> TRUE,
                  ops |-> closed \o <<"remove(dbPath)", "rename(temp,dbPath)">>]
            ELSE [fs |-> fsRemove(f1, tempPath, io.del), ret |-> FALSE,
                  ops |-> closed \o <<"remove(temp)">>]

\* bool remove(const char* key): the filesystem afterwards and the result
remove(t, f, key, io) ==
    IF key.null THEN [fs |-> f, ret |-> FALSE, ops |-> NoOps]
    ELSE IF f[dbPath] = NoFile \/ ~io.openR
         THEN [fs |-> f, ret |-> FALSE, ops |-> <<"open(dbPath,r)">>]
    ELSE IF ~io.openW
         THEN [fs |-> f, ret |-> FALSE,
               ops |-> <<"open(dbPath,r)", "open(temp,w)", "close(src)">>]
    ELSE
        LET scan == removeLoop(t, readSlots(t, f[dbPath]), 1, key, io.wrote,
                               [dst |-> <<>>, found |-> FALSE,
                                ops |-> <<"open(dbPath,r)", "open(temp,w)">>])
            f1 == [f EXCEPT ![tempPath] = scan.dst]
            closed == scan.ops \o <<"close(src)", "close(dst)">>
        IN  IF scan.found
            THEN [fs |-> fsRename(fsRemove(f1, dbPath, io.del),
                                  tempPath, dbPath, io.ren),
                  ret |-> TRUE,
                  ops |-> closed \o <<"remove(dbPath)", "rename(temp,dbPath)">>]
            ELSE [fs |-> fsRemove(f1, tempPath, io.del), ret |-> FALSE,
                  ops |-> closed \o <<"remove(temp)">>]

\* insert accepting a key of 32 chars: strlen(key) > 32 instead of >= 32
insert_lenOffByOne(t, f, key, data, io) ==
    IF key.null \/ Len(key.chars) > KeyCap
    THEN [fs |-> f, ret |-> FALSE, ops |-> NoOps]
    ELSE
        LET rm == remove(t, f, key, io)
            f1 == rm.fs
        IN  IF ~io.openA
            THEN [fs |-> f1, ret |-> FALSE,
                  ops |-> rm.ops \o <<"open(dbPath,a)">>]
            ELSE
                LET old == IF f1[dbPath] = NoFile THEN <<>> ELSE f1[dbPath]
                    rec == makeRecord(t, key, data)
                IN  [fs |-> [f1 EXCEPT
                                ![dbPath] = old \o written(rec, io.appended)],
                     ret |-> io.appended = sizeofRecord(t),
                     ops |-> rm.ops \o <<"open(dbPath,a)", "write(file)",
                                         "close(file)">>]

\* insert returning true once the file is open, whatever write returned
insert_writeUnchecked(t, f, key, data, io) ==
    IF key.null \/ Len(key.chars) >= KeyCap
    THEN [fs |-> f, ret |-> FALSE, ops |-> NoOps]
    ELSE
        LET rm == remove(t, f, key, io)
            f1 == rm.fs
        IN  IF ~io.openA
            THEN [fs |-> f1, ret |-> FALSE,
                  ops |-> rm.ops \o <<"open(dbPath,a)">>]
            ELSE
                LET old == IF f1[dbPath] = NoFile THEN <<>> ELSE f1[dbPath]
                    rec == makeRecord(t, key, data)
                IN  [fs |-> [f1 EXCEPT
                                ![dbPath] = old \o written(rec, io.appended)],
                     ret |-> TRUE,
                     ops |-> rm.ops \o <<"open(dbPath,a)", "write(file)",
                                         "close(file)">>]

\* insert without its remove(key): the record is appended at once
insert_noRemove(t, f, key, data, io) ==
    IF key.null \/ Len(key.chars) >= KeyCap
    THEN [fs |-> f, ret |-> FALSE, ops |-> NoOps]
    ELSE IF ~io.openA
    THEN [fs |-> f, ret |-> FALSE, ops |-> <<"open(dbPath,a)">>]
    ELSE
        LET old == IF f[dbPath] = NoFile THEN <<>> ELSE f[dbPath]
            rec == makeRecord(t, key, data)
        IN  [fs |-> [f EXCEPT ![dbPath] = old \o written(rec, io.appended)],
             ret |-> io.appended = sizeofRecord(t),
             ops |-> <<"open(dbPath,a)", "write(file)", "close(file)">>]

\* bool insert(const char* key, const T& data): the filesystem afterwards
\* and the result
insert(t, f, key, data, io) ==
    IF key.null \/ Len(key.chars) >= KeyCap
    THEN [fs |-> f, ret |-> FALSE, ops |-> NoOps]
    ELSE
        LET rm == remove(t, f, key, io)
            f1 == rm.fs
        IN  IF ~io.openA
            THEN [fs |-> f1, ret |-> FALSE,
                  ops |-> rm.ops \o <<"open(dbPath,a)">>]
            ELSE
                LET old == IF f1[dbPath] = NoFile THEN <<>> ELSE f1[dbPath]
                    rec == makeRecord(t, key, data)
                IN  [fs |-> [f1 EXCEPT
                                ![dbPath] = old \o written(rec, io.appended)],
                     ret |-> io.appended = sizeofRecord(t),
                     ops |-> rm.ops \o <<"open(dbPath,a)", "write(file)",
                                         "close(file)">>]

RECURSIVE countLoop(_, _, _, _)
\* the while loop of count over slots[i..]
countLoop(t, slots, i, n) ==
    IF i > Len(slots) THEN n
    ELSE IF ~crcOk(t, slots[i]) THEN countLoop(t, slots, i + 1, n)
    ELSE countLoop(t, slots, i + 1, n + 1)

\* size_t count()
count(t, f, io) ==
    IF f[dbPath] = NoFile \/ ~io.openR THEN 0
    ELSE countLoop(t, readSlots(t, f[dbPath]), 1, 0)

RECURSIVE selectAllLoop_noCrc(_, _, _, _)
\* the loop of selectAll without its checksum test
selectAllLoop_noCrc(t, slots, i, calls) ==
    IF i > Len(slots) THEN calls
    ELSE selectAllLoop_noCrc(t, slots, i + 1,
             Append(calls, [key |-> cstr(slots[i], 1),
                            data |-> dataOf(t, slots[i])]))

RECURSIVE selectAllLoop(_, _, _, _)
\* the while loop of selectAll over slots[i..]: the callback's calls
selectAllLoop(t, slots, i, calls) ==
    IF i > Len(slots) THEN calls
    ELSE IF ~crcOk(t, slots[i]) THEN selectAllLoop(t, slots, i + 1, calls)
    ELSE selectAllLoop(t, slots, i + 1,
             Append(calls, [key |-> cstr(slots[i], 1),
                            data |-> dataOf(t, slots[i])]))

\* void selectAll(F callback): the sequence of callback(rec.key, rec.data)
selectAll(t, f, io) ==
    IF f[dbPath] = NoFile \/ ~io.openR THEN <<>>
    ELSE selectAllLoop(t, readSlots(t, f[dbPath]), 1, <<>>)

\* clear deleting the temporary file instead of the store file
clear_wrongPath(f, io) == fsRemove(f, tempPath, io.del)

\* void clear()
clear(f, io) == fsRemove(f, dbPath, io.del)

----------------------------------------------------------------------------
(* Calls *)

NoCalls == <<>>

\* what the caller saw of the last call
Call(op, key, data, ret, out, n, calls, ops) ==
    [op |-> op, key |-> key, data |-> data, ret |-> ret,
     out |-> out, n |-> n, calls |-> calls, ops |-> ops]

\* record slots (full or partial) the store file holds
slotsUsed(t, f) ==
    IF f[dbPath] = NoFile THEN 0
    ELSE (Len(f[dbPath]) + sizeofRecord(t) - 1) \div sizeofRecord(t)

\* the file operations of count and of selectAll: open, and close if opened
readOps(f, io) ==
    IF f[dbPath] = NoFile \/ ~io.openR THEN <<"open(dbPath,r)">>
    ELSE <<"open(dbPath,r)", "close(file)">>

\* db.insert(key, data); counted says whether the call counters run
Insert(key, data, io, counted, maxSlots) ==
    /\ slotsUsed(T, fs) < maxSlots
    /\ counted => nIns + nRem < MaxOps
    /\ LET r == insert(T, fs, key, data, io)
       IN  /\ fs' = r.fs
           /\ last' = Call("insert", key, data, r.ret, NoData, 0, NoCalls,
                            r.ops)
           /\ nIns' = IF counted /\ r.ret THEN nIns + 1 ELSE nIns
    /\ prev' = fs
    /\ faults' = io
    /\ UNCHANGED <<T, nRem, nEnv, proc, acked>>

\* db.remove(key)
Remove(key, io, counted) ==
    /\ counted => nIns + nRem < MaxOps
    /\ LET r == remove(T, fs, key, io)
       IN  /\ fs' = r.fs
           /\ last' = Call("remove", key, NoData, r.ret, NoData, 0, NoCalls,
                            r.ops)
           /\ nRem' = IF counted /\ r.ret THEN nRem + 1 ELSE nRem
    /\ prev' = fs
    /\ faults' = io
    /\ UNCHANGED <<T, nIns, nEnv, proc, acked>>

\* db.query(key, data) opening the file in a mode that creates it ("a" for
\* "r")
Query_creates(key, io) ==
    /\ LET r == query(T, fs, key, io)
       IN  last' = Call("query", key, NoData, r.ret, r.data, 0, NoCalls,
                           r.ops)
    /\ fs' = IF fs[dbPath] = NoFile THEN [fs EXCEPT ![dbPath] = <<>>] ELSE fs
    /\ prev' = fs
    /\ faults' = io
    /\ UNCHANGED <<T, nIns, nRem, nEnv, proc, acked>>

\* db.query(key, data)
Query(key, io) ==
    /\ LET r == query(T, fs, key, io)
       IN  last' = Call("query", key, NoData, r.ret, r.data, 0, NoCalls,
                           r.ops)
    /\ prev' = fs
    /\ faults' = io
    /\ UNCHANGED <<T, fs, nIns, nRem, nEnv, proc, acked>>

\* db.exists(key)
Exists(key, io) ==
    /\ last' = Call("exists", key, NoData, exists(T, fs, key, io), NoData, 0,
                    NoCalls, query(T, fs, key, io).ops)
    /\ prev' = fs
    /\ faults' = io
    /\ UNCHANGED <<T, fs, nIns, nRem, nEnv, proc, acked>>

\* db.count()
Count(io) ==
    /\ last' = Call("count", NullKey, NoData, TRUE, NoData, count(T, fs, io),
                    NoCalls, readOps(fs, io))
    /\ prev' = fs
    /\ faults' = io
    /\ UNCHANGED <<T, fs, nIns, nRem, nEnv, proc, acked>>

\* db.selectAll(callback)
SelectAll(io) ==
    /\ last' = Call("selectAll", NullKey, NoData, TRUE, NoData, 0,
                    selectAll(T, fs, io), readOps(fs, io))
    /\ prev' = fs
    /\ faults' = io
    /\ UNCHANGED <<T, fs, nIns, nRem, nEnv, proc, acked>>

\* db.clear()
Clear(io) ==
    /\ fs' = clear(fs, io)
    /\ last' = Call("clear", NullKey, NoData, TRUE, NoData, 0, NoCalls,
                    <<"remove(dbPath)">>)
    /\ prev' = fs
    /\ faults' = io
    /\ UNCHANGED <<T, nIns, nRem, nEnv, proc, acked>>

----------------------------------------------------------------------------
(* The environment: corruption of stored bytes, interrupted appends *)

\* the value stored under each key while the environment acts: one whose
\* record reads back checksum-valid in either instantiation
EnvValue(t, key) ==
    IF t = TypeU8
    THEN (IF key = KeyA THEN 1 ELSE IF key = KeyB THEN 2 ELSE 3)
    ELSE (IF key = KeyA THEN 34561 ELSE IF key = KeyB THEN 41729 ELSE 48897)

\* lengths a short write of one record can have
TornLens == {5}

\* the bytes of a slot the environment flips: key[0], data[0] and the
\* record's last byte (the crc byte of uint8_t, the padding of uint16_t)
FlipOffsets(t) == {1, KeyCap + 1, sizeofRecord(t)}

\* bit 0 of byte `off` of slot `i` of the store file, a slot that holds a
\* checksum-valid record, is flipped
FlipByte(i, off) ==
    /\ nEnv.flips < MaxFlips
    /\ fs[dbPath] # NoFile
    /\ i \in 1..(Len(fs[dbPath]) \div sizeofRecord(T))
    /\ crcOk(T, readSlots(T, fs[dbPath])[i])
    /\ LET at == (i - 1) * sizeofRecord(T) + off
       IN  fs' = [fs EXCEPT ![dbPath][at] = Xor(@, 1)]
    /\ last' = Call("flip", NullKey, NoData, TRUE, off, i, NoCalls, NoOps)
    /\ prev' = fs
    /\ nEnv' = [nEnv EXCEPT !.flips = @ + 1]
    /\ faults' = NoFault(T)
    /\ UNCHANGED <<T, nIns, nRem, proc, acked>>

\* db.insert(key, data) whose write transfers only n bytes
TornInsert(key, data, n) ==
    /\ nEnv.torn < MaxTorn
    /\ nEnv' = [nEnv EXCEPT !.torn = @ + 1]
    /\ slotsUsed(T, fs) < MaxEnvSlots
    /\ LET r == insert(T, fs, key, data,
                       [NoFault(T) EXCEPT !.appended = n])
       IN  /\ fs' = r.fs
           /\ last' = Call("insert", key, data, r.ret, NoData, 0, NoCalls,
                            r.ops)
    /\ prev' = fs
    /\ faults' = [NoFault(T) EXCEPT !.appended = n]
    /\ UNCHANGED <<T, nIns, nRem, proc, acked>>

\* the ways the file operations of one call fail: one kind of operation
\* fails (a short write transfers TornLens bytes)
FaultPlans(t) ==
    {[NoFault(t) EXCEPT !.openR = FALSE], [NoFault(t) EXCEPT !.openW = FALSE],
     [NoFault(t) EXCEPT !.openA = FALSE], [NoFault(t) EXCEPT !.del = FALSE],
     [NoFault(t) EXCEPT !.ren = FALSE]}
        \cup {[NoFault(t) EXCEPT !.wrote = n] : n \in TornLens}
        \cup {[NoFault(t) EXCEPT !.appended = n] : n \in TornLens}

\* what the open of a call that only reads does: it succeeds or fails
ReadPlans(t) == {NoFault(t), [NoFault(t) EXCEPT !.openR = FALSE]}

\* db.insert(key, data) with file operations failing as io says
FaultyInsert(key, data, io) ==
    /\ nEnv.io < MaxFaults
    /\ nEnv' = [nEnv EXCEPT !.io = @ + 1]
    /\ slotsUsed(T, fs) < MaxEnvSlots
    /\ LET r == insert(T, fs, key, data, io)
       IN  /\ fs' = r.fs
           /\ last' = Call("insert", key, data, r.ret, NoData, 0, NoCalls,
                            r.ops)
    /\ prev' = fs
    /\ faults' = io
    /\ UNCHANGED <<T, nIns, nRem, proc, acked>>

\* db.remove(key) with file operations failing as io says
FaultyRemove(key, io) ==
    /\ nEnv.io < MaxFaults
    /\ nEnv' = [nEnv EXCEPT !.io = @ + 1]
    /\ LET r == remove(T, fs, key, io)
       IN  /\ fs' = r.fs
           /\ last' = Call("remove", key, NoData, r.ret, NoData, 0, NoCalls,
                            r.ops)
    /\ prev' = fs
    /\ faults' = io
    /\ UNCHANGED <<T, nIns, nRem, proc, acked>>

----------------------------------------------------------------------------
(* Calls run one file operation at a time *)

\* the callers of insert and remove
Callers == {1, 2}

\* a caller outside any call
Idle ==
    [pc |-> "idle", op |-> "none", key |-> NullKey, data |-> NoData,
     pos |-> 0, rec |-> <<>>, found |-> FALSE, ok |-> FALSE,
     ops |-> NoOps, crashed |-> FALSE]

\* caller p is at `pc` of a call that execution has not stopped
At(p, pc) == proc[p].pc = pc /\ ~proc[p].crashed

\* caller p goes on to `pc`, having made the file operation `o`
Goto(p, pc, o) ==
    proc' = [proc EXCEPT ![p].pc = pc, ![p].ops = Append(@, o)]

\* the call of caller p returns ret to its caller
Return(p, ret) ==
    /\ proc' = [proc EXCEPT ![p] = Idle]
    /\ last' = Call(proc[p].op, proc[p].key, proc[p].data, ret, NoData, 0,
                    NoCalls, proc[p].ops)
    /\ acked' = IF ~ret THEN acked
                ELSE [acked EXCEPT ![proc[p].key] =
                         IF proc[p].op = "insert" THEN proc[p].data
                         ELSE NoData]

\* caller p calls db.insert(key, data) (op = "insert") or db.remove(key):
\* the tests of lines 26 and 79, then on to remove's first open
Begin(p, op, key, data) ==
    /\ proc[p].pc = "idle" \/ proc[p].crashed
    /\ nEnv.calls < MaxCalls
    /\ nEnv' = [nEnv EXCEPT !.calls = @ + 1]
    /\ prev' = fs
    /\ IF key.null \/ (op = "insert" /\ Len(key.chars) >= KeyCap)
       THEN /\ proc' = [proc EXCEPT ![p] = Idle]
            /\ last' = Call(op, key, data, FALSE, NoData, 0, NoCalls, NoOps)
       ELSE /\ proc' = [proc EXCEPT ![p] =
                           [Idle EXCEPT !.pc = "rm_open_src", !.op = op,
                                        !.key = key, !.data = data]]
            /\ UNCHANGED last
    /\ UNCHANGED <<T, fs, nIns, nRem, faults, acked>>

\* remove: File src = SPIFFS.open(dbPath, "r"); if (!src) return false;
RmOpenSrc(p) ==
    /\ At(p, "rm_open_src")
    /\ IF fs[dbPath] = NoFile
       THEN Goto(p, "rm_return", "open(dbPath,r)")
       ELSE Goto(p, "rm_open_dst", "open(dbPath,r)")
    /\ UNCHANGED <<T, fs, prev, last, nIns, nRem, nEnv, faults, acked>>

\* remove: File dst = SPIFFS.open("/temp.db", "w")
RmOpenDst(p) ==
    /\ At(p, "rm_open_dst")
    /\ fs' = [fs EXCEPT ![tempPath] = <<>>]
    /\ Goto(p, "rm_read", "open(temp,w)")
    /\ UNCHANGED <<T, prev, last, nIns, nRem, nEnv, faults, acked>>

\* remove: one src.read of the loop with the tests on the record read; the
\* read is short at the end of the file, and when the file is gone
RmRead(p) ==
    /\ At(p, "rm_read")
    /\ LET slots == IF fs[dbPath] = NoFile THEN <<>>
                    ELSE readSlots(T, fs[dbPath])
           i == proc[p].pos + 1
       IN  IF i > Len(slots)
           THEN proc' = [proc EXCEPT ![p].pc = "rm_close_src"]
           ELSE IF ~crcOk(T, slots[i])
           THEN proc' = [proc EXCEPT ![p].pos = i]
           ELSE IF ~keyEq(slots[i], proc[p].key)
           THEN proc' = [proc EXCEPT ![p].pos = i, ![p].rec = slots[i],
                                     ![p].pc = "rm_write"]
           ELSE proc' = [proc EXCEPT ![p].pos = i, ![p].found = TRUE]
    /\ UNCHANGED <<T, fs, prev, last, nIns, nRem, nEnv, faults, acked>>

\* remove: dst.write of the record kept; nothing is written when the file
\* is gone
RmWrite(p) ==
    /\ At(p, "rm_write")
    /\ fs' = IF fs[tempPath] = NoFile THEN fs
             ELSE [fs EXCEPT ![tempPath] = @ \o proc[p].rec]
    /\ Goto(p, "rm_read", "write(dst)")
    /\ UNCHANGED <<T, prev, last, nIns, nRem, nEnv, faults, acked>>

\* remove: src.close()
RmCloseSrc(p) ==
    /\ At(p, "rm_close_src")
    /\ Goto(p, "rm_close_dst", "close(src)")
    /\ UNCHANGED <<T, fs, prev, last, nIns, nRem, nEnv, faults, acked>>

\* remove: dst.close(), then if (found)
RmCloseDst(p) ==
    /\ At(p, "rm_close_dst")
    /\ Goto(p, IF proc[p].found THEN "rm_delete" ELSE "rm_delete_temp",
            "close(dst)")
    /\ UNCHANGED <<T, fs, prev, last, nIns, nRem, nEnv, faults, acked>>

\* remove: SPIFFS.remove(dbPath) left out, the rename coming next
RmDelete_skipped(p) ==
    /\ At(p, "rm_delete")
    /\ Goto(p, "rm_rename", "remove(dbPath)")
    /\ UNCHANGED <<T, fs, prev, last, nIns, nRem, nEnv, faults, acked>>

\* remove: SPIFFS.remove(dbPath)
RmDelete(p) ==
    /\ At(p, "rm_delete")
    /\ fs' = fsRemove(fs, dbPath, TRUE)
    /\ Goto(p, "rm_rename", "remove(dbPath)")
    /\ UNCHANGED <<T, prev, last, nIns, nRem, nEnv, faults, acked>>

\* remove: SPIFFS.rename("/temp.db", dbPath)
RmRename(p) ==
    /\ At(p, "rm_rename")
    /\ fs' = fsRename(fs, tempPath, dbPath, TRUE)
    /\ Goto(p, "rm_return", "rename(temp,dbPath)")
    /\ UNCHANGED <<T, prev, last, nIns, nRem, nEnv, faults, acked>>

\* remove: SPIFFS.remove("/temp.db")
RmDeleteTemp(p) ==
    /\ At(p, "rm_delete_temp")
    /\ fs' = fsRemove(fs, tempPath, TRUE)
    /\ Goto(p, "rm_return", "remove(temp)")
    /\ UNCHANGED <<T, prev, last, nIns, nRem, nEnv, faults, acked>>

\* remove returns found: to the caller, or into insert, which drops it
RmReturn(p) ==
    /\ At(p, "rm_return")
    /\ IF proc[p].op = "remove"
       THEN Return(p, proc[p].found)
       ELSE /\ proc' = [proc EXCEPT ![p].pc = "ins_open"]
            /\ UNCHANGED <<last, acked>>
    /\ UNCHANGED <<T, fs, prev, nIns, nRem, nEnv, faults>>

\* insert: File file = SPIFFS.open(dbPath, "a"), which creates the file
InsOpen(p) ==
    /\ At(p, "ins_open")
    /\ fs' = IF fs[dbPath] = NoFile THEN [fs EXCEPT ![dbPath] = <<>>] ELSE fs
    /\ Goto(p, "ins_write", "open(dbPath,a)")
    /\ UNCHANGED <<T, prev, last, nIns, nRem, nEnv, faults, acked>>

\* insert: the record is built and written; the write fails when the file
\* is gone
InsWrite(p) ==
    /\ At(p, "ins_write")
    /\ fs' = IF fs[dbPath] = NoFile THEN fs
             ELSE [fs EXCEPT ![dbPath] =
                      @ \o makeRecord(T, proc[p].key, proc[p].data)]
    /\ proc' = [proc EXCEPT ![p].pc = "ins_close",
                            ![p].ok = fs[dbPath] # NoFile,
                            ![p].ops = Append(@, "write(file)")]
    /\ UNCHANGED <<T, prev, last, nIns, nRem, nEnv, faults, acked>>

\* insert: file.close(); return ok;
InsClose(p) ==
    /\ At(p, "ins_close")
    /\ proc' = [proc EXCEPT ![p] = Idle]
    /\ last' = Call("insert", proc[p].key, proc[p].data, proc[p].ok, NoData,
                    0, NoCalls, Append(proc[p].ops, "close(file)"))
    /\ acked' = IF proc[p].ok
                THEN [acked EXCEPT ![proc[p].key] = proc[p].data]
                ELSE acked
    /\ UNCHANGED <<T, fs, prev, nIns, nRem, nEnv, faults>>

\* the next file operation of caller p's call
Step(p) ==
    \/ RmOpenSrc(p) \/ RmOpenDst(p) \/ RmRead(p) \/ RmWrite(p)
    \/ RmCloseSrc(p) \/ RmCloseDst(p) \/ RmDelete(p) \/ RmRename(p)
    \/ RmDeleteTemp(p) \/ RmReturn(p)
    \/ InsOpen(p) \/ InsWrite(p) \/ InsClose(p)

\* execution stops (power loss, reset) while a call is running: the files
\* stay as they are, the calls are gone
Crash ==
    /\ \E p \in Callers : proc[p].pc # "idle" /\ ~proc[p].crashed
    /\ nEnv.crashes < MaxCrashes
    /\ nEnv' = [nEnv EXCEPT !.crashes = @ + 1]
    /\ proc' = [p \in Callers |->
                   IF proc[p].pc = "idle" THEN proc[p]
                   ELSE [proc[p] EXCEPT !.crashed = TRUE]]
    /\ last' = Call("crash", NullKey, NoData, FALSE, NoData, 0, NoCalls,
                    NoOps)
    /\ UNCHANGED <<T, fs, prev, nIns, nRem, faults, acked>>

----------------------------------------------------------------------------
(* Specifications *)

NoFiles == [p \in Paths |-> NoFile]

Init ==
    /\ T \in Types
    /\ fs = NoFiles
    /\ prev = NoFiles
    /\ last = Call("new", NullKey, NoData, TRUE, NoData, 0, NoCalls, NoOps)
    /\ nIns = 0
    /\ nRem = 0
    /\ nEnv = [flips |-> 0, torn |-> 0, io |-> 0, calls |-> 0, crashes |-> 0]
    /\ faults = NoFault(T)
    /\ proc = [p \in Callers |-> Idle]
    /\ acked = [k \in GoodKeys |-> NoData]

\* the calls of a single caller, every file operation succeeding
Next ==
    \/ \E key \in Keys, data \in Values(T) :
           Insert(key, data, NoFault(T), FALSE, MaxSlots)
    \/ \E key \in Keys : Remove(key, NoFault(T), FALSE)
    \/ \E key \in Keys : Query(key, NoFault(T))
    \/ \E key \in Keys : Exists(key, NoFault(T))
    \/ Count(NoFault(T))
    \/ SelectAll(NoFault(T))
    \/ Clear(NoFault(T))

Spec == Init /\ [][Next]_vars

\* the calls that change the store file and selectAll, with stored bytes
\* flipped and appends torn in between
NextEnv ==
    \/ \E key \in GoodKeys :
           Insert(key, EnvValue(T, key), NoFault(T), FALSE, MaxEnvSlots)
    \/ \E key \in GoodKeys \cup {NullKey} : Remove(key, NoFault(T), FALSE)
    \/ SelectAll(NoFault(T))
    \/ Clear(NoFault(T))
    \/ \E i \in 1..MaxEnvSlots, off \in FlipOffsets(T) : FlipByte(i, off)
    \/ \E key \in GoodKeys, n \in TornLens :
           TornInsert(key, EnvValue(T, key), n)

SpecEnv == Init /\ [][NextEnv]_vars

\* three keys inserted and removed in every order, with a stored payload
\* byte flipped in between; a key can be inserted again while the three
\* keys are stored
NextOrder ==
    \/ \E key \in OrderKeys :
           Insert(key, EnvValue(T, key), NoFault(T), FALSE, MaxEnvSlots + 1)
    \/ \E key \in OrderKeys : Remove(key, NoFault(T), FALSE)
    \/ SelectAll(NoFault(T))
    \/ \E i \in 1..MaxEnvSlots : FlipByte(i, KeyCap + 1)

SpecOrder == Init /\ [][NextOrder]_vars

\* the calls that only read, on the files that insert builds with a stored
\* payload byte flipped and an append torn in between
NextRead ==
    \/ \E key \in GoodKeys :
           Insert(key, EnvValue(T, key), NoFault(T), FALSE, MaxEnvSlots)
    \/ \E key \in GoodKeys : Query(key, NoFault(T))
    \/ \E key \in GoodKeys : Exists(key, NoFault(T))
    \/ Count(NoFault(T))
    \/ SelectAll(NoFault(T))
    \/ \E i \in 1..MaxEnvSlots : FlipByte(i, KeyCap + 1)
    \/ \E key \in GoodKeys, n \in TornLens :
           TornInsert(key, EnvValue(T, key), n)

SpecRead == Init /\ [][NextRead]_vars

\* insert, remove, query, count and selectAll, with calls whose file
\* operations fail in between
NextIO ==
    \/ \E key \in GoodKeys :
           Insert(key, EnvValue(T, key), NoFault(T), FALSE, MaxEnvSlots)
    \/ \E key \in GoodKeys : Remove(key, NoFault(T), FALSE)
    \/ \E key \in GoodKeys, io \in ReadPlans(T) : Query(key, io)
    \/ \E io \in ReadPlans(T) : Count(io)
    \/ \E io \in ReadPlans(T) : SelectAll(io)
    \/ \E key \in GoodKeys, io \in FaultPlans(T) :
           FaultyInsert(key, EnvValue(T, key), io)
    \/ \E key \in GoodKeys, io \in FaultPlans(T) : FaultyRemove(key, io)

SpecIO == Init /\ [][NextIO]_vars

\* one caller whose calls run one file operation at a time, execution
\* stopping in between
NextCrash ==
    \/ \E key \in GoodKeys, data \in Values(T) : Begin(1, "insert", key, data)
    \/ \E key \in GoodKeys : Begin(1, "remove", key, NoData)
    \/ Step(1)
    \/ Crash

SpecCrash == Init /\ [][NextCrash]_vars

\* two callers whose calls interleave one file operation at a time
NextSteps ==
    \E p \in Callers :
        \/ \E key \in GoodKeys, data \in Values(T) :
               Begin(p, "insert", key, data)
        \/ \E key \in GoodKeys : Begin(p, "remove", key, NoData)
        \/ Step(p)

SpecSteps == Init /\ [][NextSteps]_vars

\* no call of insert or remove is running
quiescent == \A p \in Callers : proc[p].pc = "idle"

\* two callers whose calls are serialized: a call begins when none is
\* running
NextSerial ==
    \E p \in Callers :
        \/ quiescent /\ \E key \in GoodKeys, data \in Values(T) :
                            Begin(p, "insert", key, data)
        \/ quiescent /\ \E key \in GoodKeys : Begin(p, "remove", key, NoData)
        \/ Step(p)

SpecSerial == Init /\ [][NextSerial]_vars

\* insert and remove from an empty store, counting the calls that return true
NextCounted ==
    \/ \E key \in Keys, data \in Values(T) :
           Insert(key, data, NoFault(T), TRUE, MaxSlots)
    \/ \E key \in Keys : Remove(key, NoFault(T), TRUE)
    \/ Count(NoFault(T))

SpecCounted == Init /\ [][NextCounted]_vars

\* Spec for the instantiation without padding only
InitPacked == Init /\ T = TypeU8

SpecPacked == InitPacked /\ [][Next]_vars

\* SpecSerial for the instantiation without padding only
SpecSerialPacked == InitPacked /\ [][NextSerial]_vars

----------------------------------------------------------------------------
(* Claims *)

\* every file operation succeeds
NF == NoFault(T)

\* C1: whenever insert(key, data) has just returned true, query(key) returns
\* true and yields data.
C1_InsertThenQuery ==
    (last.op = "insert" /\ last.ret)
        => /\ query(T, fs, last.key, NF).ret
           /\ query(T, fs, last.key, NF).data = last.data

\* the slots of the store file, and those a scan takes as records
dbSlots(f) == IF f[dbPath] = NoFile THEN <<>> ELSE readSlots(T, f[dbPath])
liveIdx(f) == {i \in 1..Len(dbSlots(f)) : crcOk(T, dbSlots(f)[i])}
found(f, key) == query(T, f, key, NF).ret
strayBytes(f) ==
    IF f[dbPath] = NoFile THEN 0 ELSE Len(f[dbPath]) % sizeofRecord(T)

\* C2: no two checksum-valid records of the store file carry the same key.
C2_OneLivePerKey ==
    \A i, j \in liveIdx(fs) :
        i # j => cstr(dbSlots(fs)[i], 1) # cstr(dbSlots(fs)[j], 1)

\* C2's case: insert has replaced the live record of its key, another key's
\* record being live too.
C2_Witness ==
    /\ last.op = "insert" /\ last.ret
    /\ found(prev, last.key)
    /\ query(T, prev, last.key, NF).data # last.data
    /\ found(fs, last.key)
    /\ Cardinality(liveIdx(fs)) = 2

\* C3: an insert that returns true on a key with a live record leaves
\* query(key) yielding the new value, every other key's query as before and
\* count() as before.
C3_InsertReplaces ==
    (last.op = "insert" /\ last.ret /\ found(prev, last.key))
        => /\ query(T, fs, last.key, NF).ret
           /\ query(T, fs, last.key, NF).data = last.data
           /\ \A k \in GoodKeys \ {last.key} :
                  /\ query(T, fs, k, NF).ret = query(T, prev, k, NF).ret
                  /\ query(T, fs, k, NF).data = query(T, prev, k, NF).data
           /\ count(T, fs, NF) = count(T, prev, NF)

\* C4: remove(key) on a key with a live record returns true, and afterwards
\* query(key) returns false and count() is one less.
C4_RemovePresent ==
    (last.op = "remove" /\ found(prev, last.key))
        => /\ last.ret
           /\ ~found(fs, last.key)
           /\ count(T, fs, NF) = count(T, prev, NF) - 1

\* C4's case: a live record was removed while another one stays.
C4_Witness ==
    /\ last.op = "remove" /\ found(prev, last.key)
    /\ count(T, prev, NF) = 2
    /\ count(T, fs, NF) = 1

\* C5: remove(key) on a key without a live record returns false and leaves
\* the store file as it was, missing or with the same bytes.
C5_RemoveAbsent ==
    (last.op = "remove" /\ ~found(prev, last.key))
        => /\ ~last.ret
           /\ fs[dbPath] = prev[dbPath]

\* C5's case: remove of an absent key ran its scan over a file that holds a
\* live record, a checksum-invalid slot and stray trailing bytes.
C5_Witness ==
    /\ last.op = "remove" /\ ~last.key.null /\ ~found(prev, last.key)
    /\ liveIdx(prev) # {}
    /\ liveIdx(prev) # 1..Len(dbSlots(prev))
    /\ strayBytes(prev) > 0

\* C5's other case: the store file does not exist.
C5_WitnessNoFile ==
    /\ last.op = "remove" /\ ~last.key.null
    /\ prev[dbPath] = NoFile /\ fs[dbPath] = NoFile

\* C6: from an empty store, count() equals the insert calls that returned
\* true minus the remove calls that returned true.
C6_CountIsInsertsMinusRemoves == count(T, fs, NF) = nIns - nRem

\* C7: insert with a null key or a key of 32 chars or more returns false,
\* makes no file operation and leaves every file as it was.
C7_RejectsBadKey ==
    (last.op = "insert" /\ (last.key.null \/ Len(last.key.chars) >= KeyCap))
        => /\ ~last.ret
           /\ last.ops = NoOps
           /\ fs = prev

\* C7's case: insert of a key of exactly 32 chars on a store with records.
C7_Witness ==
    /\ last.op = "insert" /\ ~last.key.null
    /\ Len(last.key.chars) = KeyCap
    /\ count(T, prev, NF) = 2

\* C7's other case: insert of a null key on a store with records.
C7_WitnessNull ==
    /\ last.op = "insert" /\ last.key.null
    /\ count(T, prev, NF) = 2

\* s without its element at position k
RemoveAt(s, k) == SubSeq(s, 1, k - 1) \o SubSeq(s, k + 1, Len(s))

\* the flip just made hit a key or payload byte of a checksum-valid record
flippedLive ==
    /\ last.op = "flip"
    /\ last.out <= KeyCap + T.size
    /\ crcOk(T, dbSlots(prev)[last.n])

\* C8: once a key or payload byte of a stored record is changed, the record
\* is checksum-invalid: query does not return it, count does not count it,
\* selectAll does not visit it, and every other record is returned, counted
\* and visited as before, in its place.
C8_CorruptRecordHidden ==
    flippedLive =>
        LET rec == dbSlots(prev)[last.n]
            key == Str(cstr(rec, 1))
            pos == Cardinality({j \in liveIdx(prev) : j <= last.n})
        IN  /\ ~crcOk(T, dbSlots(fs)[last.n])
            /\ ~found(fs, key)
            /\ count(T, fs, NF) = count(T, prev, NF) - 1
            /\ selectAll(T, fs, NF) = RemoveAt(selectAll(T, prev, NF), pos)
            /\ \A k \in GoodKeys \ {key} :
                   /\ query(T, fs, k, NF).ret = query(T, prev, k, NF).ret
                   /\ query(T, fs, k, NF).data = query(T, prev, k, NF).data

\* C8's case: the first of two live records was corrupted, the second one
\* lies behind the corrupted slot.
C8_Witness ==
    /\ flippedLive
    /\ last.n = 1
    /\ count(T, prev, NF) = 2
    /\ count(T, fs, NF) = 1

\* the k-th checksum-valid slot of the store file, in file order
nthLive(f, k) ==
    CHOOSE i \in liveIdx(f) : Cardinality({j \in liveIdx(f) : j < i}) = k - 1

\* C9: selectAll calls the callback once for every checksum-valid slot of
\* the file, in file order, with the slot's key and data, and for no other
\* slot; it makes as many calls as count() returns.
C9_SelectAllVisitsLive ==
    last.op = "selectAll" =>
        /\ Len(last.calls) = Cardinality(liveIdx(fs))
        /\ \A k \in 1..Len(last.calls) :
               /\ last.calls[k].key = cstr(dbSlots(fs)[nthLive(fs, k)], 1)
               /\ last.calls[k].data = dataOf(T, dbSlots(fs)[nthLive(fs, k)])
        /\ Len(last.calls) = count(T, fs, NF)

\* C9's case: selectAll ran over a file whose first slot is checksum-invalid
\* and that holds two checksum-valid records behind it.
C9_Witness ==
    /\ last.op = "selectAll"
    /\ Len(dbSlots(fs)) = 3
    /\ liveIdx(fs) = {2, 3}
    /\ Len(last.calls) = 2

\* C10: after clear() no file is left, as before the first call: count()
\* is 0, query, exists and remove return false for every key and selectAll
\* visits nothing.
C10_ClearEmpties ==
    last.op = "clear" =>
        /\ fs = NoFiles
        /\ count(T, fs, NF) = 0
        /\ selectAll(T, fs, NF) = <<>>
        /\ \A k \in Keys :
               /\ ~query(T, fs, k, NF).ret
               /\ ~exists(T, fs, k, NF)
               /\ ~remove(T, fs, k, NF).ret

\* C10's case: clear ran on a store with a live record, a checksum-invalid
\* slot and stray trailing bytes.
C10_Witness ==
    /\ last.op = "clear"
    /\ liveIdx(prev) # {}
    /\ liveIdx(prev) # 1..Len(dbSlots(prev))
    /\ strayBytes(prev) > 0

\* the checksum-valid slots of the store file whose key is not `key`, in
\* file order
keptSlots(f, key) ==
    SelectSeq(dbSlots(f), LAMBDA rec : crcOk(T, rec) /\ ~keyEq(rec, key))

RECURSIVE Flatten(_)
\* the bytes of a sequence of slots
Flatten(slots) ==
    IF slots = <<>> THEN <<>> ELSE Head(slots) \o Flatten(Tail(slots))

\* C11: after a remove(key) that returns true the store file holds exactly
\* the slots that were checksum-valid with another key before, byte for
\* byte and in their order, and selectAll visits what it visited before
\* without the visits of key.
C11_RemoveKeepsOthers ==
    (last.op = "remove" /\ last.ret)
        => /\ fs[dbPath] = Flatten(keptSlots(prev, last.key))
           /\ selectAll(T, fs, NF)
                  = SelectSeq(selectAll(T, prev, NF),
                              LAMBDA c : c.key # last.key.chars)

\* C11's case: of three records a, b, c the middle one was removed and
\* selectAll yields a then c.
C11_Witness ==
    /\ last.op = "remove" /\ last.ret /\ last.key = KeyB
    /\ Len(selectAll(T, prev, NF)) = 3
    /\ selectAll(T, prev, NF)[2].key = KeyB.chars
    /\ selectAll(T, fs, NF)
           = <<[key |-> KeyA.chars, data |-> EnvValue(T, KeyA)],
               [key |-> KeyC.chars, data |-> EnvValue(T, KeyC)]>>

\* C11's other case: the file held a checksum-invalid slot between two
\* records, one of which was removed.
C11_WitnessInvalid ==
    /\ last.op = "remove" /\ last.ret
    /\ Len(dbSlots(prev)) = 3
    /\ liveIdx(prev) = {1, 3}
    /\ Len(dbSlots(fs)) = 1

\* the call made the file operation o
made(ops, o) == \E i \in 1..Len(ops) : ops[i] = o

\* a file operation the last call made failed or was short: an open, a
\* write of a record, a delete or a rename
opFailed ==
    \/ made(last.ops, "open(dbPath,r)") /\ ~faults.openR
    \/ made(last.ops, "open(temp,w)") /\ ~faults.openW
    \/ made(last.ops, "open(dbPath,a)") /\ ~faults.openA
    \/ made(last.ops, "write(dst)") /\ faults.wrote < sizeofRecord(T)
    \/ made(last.ops, "write(file)") /\ faults.appended < sizeofRecord(T)
    \/ made(last.ops, "remove(dbPath)") /\ ~faults.del
    \/ made(last.ops, "remove(temp)") /\ ~faults.del
    \/ made(last.ops, "rename(temp,dbPath)") /\ ~faults.ren

\* C12: an insert or remove call one of whose file operations (open, write,
\* delete, rename) failed or was short returns false.
C12_FailureReturnsFalse ==
    (last.op \in {"insert", "remove"} /\ opFailed) => ~last.ret

\* C12, remove alone: a remove one of whose file operations failed returns
\* false.
C12_RemoveFailureReturnsFalse ==
    (last.op = "remove" /\ opFailed) => ~last.ret

\* C12, the operations of insert itself: an insert whose open for append
\* failed or whose write was short returns false.
C12_AppendFailureReturnsFalse ==
    (/\ last.op = "insert"
     /\ \/ made(last.ops, "open(dbPath,a)") /\ ~faults.openA
        \/ made(last.ops, "write(file)")
               /\ faults.appended < sizeofRecord(T))
        => ~last.ret

\* C13, first part: as long as no append was torn, the length of the store
\* file is a multiple of sizeof(Record).
C13_LengthMultiple == nEnv.torn = 0 => strayBytes(fs) = 0

\* C13, second part: an insert whose write was short, leaving stray bytes
\* at the end of the file, leaves the records of the other keys visible to
\* query, count and selectAll as before.
C13_TornKeepsLive ==
    (last.op = "insert" /\ faults.appended < sizeofRecord(T)
                        /\ strayBytes(fs) > 0)
        => /\ \A k \in GoodKeys \ {last.key} :
                  /\ query(T, fs, k, NF).ret = query(T, prev, k, NF).ret
                  /\ query(T, fs, k, NF).data = query(T, prev, k, NF).data
           /\ selectAll(T, fs, NF)
                  = SelectSeq(selectAll(T, prev, NF),
                              LAMBDA c : c.key # last.key.chars)
           /\ count(T, fs, NF) = Len(selectAll(T, fs, NF))

\* C13, third part: an insert that returns true on a file that ends in
\* stray bytes is visible to query.
C13_InsertAfterTorn ==
    (last.op = "insert" /\ last.ret /\ strayBytes(prev) > 0)
        => /\ query(T, fs, last.key, NF).ret
           /\ query(T, fs, last.key, NF).data = last.data

\* C13: the length of the store file is a multiple of the record size as
\* long as no append was torn; after a torn append the live records of the
\* other keys stay visible and a later insert that returns true is visible
\* to query.
C13_StrayTolerated ==
    /\ C13_LengthMultiple
    /\ C13_TornKeepsLive
    /\ C13_InsertAfterTorn

\* the append of the last call, an insert, failed: the open for append
\* failed or the write was short, every other file operation succeeding
appendFailed ==
    /\ last.op = "insert"
    /\ \/ faults = [NF EXCEPT !.openA = FALSE]
       \/ \E n \in TornLens : faults = [NF EXCEPT !.appended = n]

\* C14: an insert on a key with a live record whose remove(key) succeeded
\* and whose append failed returns false, leaves query(key) returning false
\* and the records of the other keys as they were.
C14_FailedReinsertLosesKey ==
    (appendFailed /\ found(prev, last.key))
        => /\ ~last.ret
           /\ ~found(fs, last.key)
           /\ \A k \in GoodKeys \ {last.key} :
                  /\ query(T, fs, k, NF).ret = query(T, prev, k, NF).ret
                  /\ query(T, fs, k, NF).data = query(T, prev, k, NF).data
           /\ selectAll(T, fs, NF)
                  = SelectSeq(selectAll(T, prev, NF),
                              LAMBDA c : c.key # last.key.chars)

\* C14's case: the write of the re-insert was short, on a store with two
\* live records; one is left.
C14_Witness ==
    /\ appendFailed /\ found(prev, last.key)
    /\ faults.appended < sizeofRecord(T)
    /\ count(T, prev, NF) = 2
    /\ count(T, fs, NF) = 1
    /\ strayBytes(fs) > 0

\* C14's other case: the open for append of the re-insert failed.
C14_WitnessOpen ==
    /\ appendFailed /\ found(prev, last.key)
    /\ ~faults.openA
    /\ count(T, prev, NF) = 2
    /\ count(T, fs, NF) = 1

\* C15: after a remove that returns true every slot of the store file is
\* checksum-valid and no stray bytes follow the last slot; a remove that
\* returns false leaves the file with as many slots as before and every
\* checksum-invalid slot where it was.
C15_CompactionPurges ==
    last.op = "remove" =>
        IF last.ret
        THEN /\ liveIdx(fs) = 1..Len(dbSlots(fs))
             /\ strayBytes(fs) = 0
        ELSE /\ Len(dbSlots(fs)) = Len(dbSlots(prev))
             /\ \A i \in 1..Len(dbSlots(prev)) :
                    ~crcOk(T, dbSlots(prev)[i])
                        => dbSlots(fs)[i] = dbSlots(prev)[i]

\* C15's case: remove returned true on a file with a checksum-invalid slot
\* in front of two live records; one slot is left.
C15_Witness ==
    /\ last.op = "remove" /\ last.ret
    /\ Len(dbSlots(prev)) = 3
    /\ liveIdx(prev) = {2, 3}
    /\ Len(dbSlots(fs)) = 1

\* C15's other cases: remove returned true on a file with a checksum-invalid
\* slot and stray bytes at its end; remove returned false on such a file.
C15_WitnessStray ==
    /\ last.op = "remove" /\ last.ret
    /\ liveIdx(prev) # 1..Len(dbSlots(prev))
    /\ strayBytes(prev) > 0

C15_WitnessFalse ==
    /\ last.op = "remove" /\ ~last.ret /\ ~last.key.null
    /\ liveIdx(prev) # 1..Len(dbSlots(prev))
    /\ liveIdx(prev) # {}

\* C16: after an insert(key, v) that returns true the last visit of
\* selectAll is (key, v), and the visits before it are those selectAll
\* made before the call without the visits of key, in the same order.
C16_InsertMovesLast ==
    (last.op = "insert" /\ last.ret) =>
        LET s == selectAll(T, fs, NF)
        IN  /\ s # <<>>
            /\ s[Len(s)] = [key |-> last.key.chars, data |-> last.data]
            /\ SubSeq(s, 1, Len(s) - 1)
                   = SelectSeq(selectAll(T, prev, NF),
                               LAMBDA c : c.key # last.key.chars)

\* C16's case where the code does as claimed: of three live records the
\* first was inserted again and is now visited last, behind the other two.
C16_MovedLast ==
    /\ last.op = "insert" /\ last.ret
    /\ Len(selectAll(T, prev, NF)) = 3
    /\ selectAll(T, prev, NF)[1].key = last.key.chars
    /\ Len(selectAll(T, fs, NF)) = 3
    /\ selectAll(T, fs, NF)[3].key = last.key.chars
    /\ SubSeq(selectAll(T, fs, NF), 1, 2) = SubSeq(selectAll(T, prev, NF), 2, 3)

\* where a call stands while it is inside remove
RemovePcs ==
    {"rm_open_src", "rm_open_dst", "rm_read", "rm_write", "rm_close_src",
     "rm_close_dst", "rm_delete", "rm_rename", "rm_delete_temp", "rm_return"}

\* execution stopped while caller p was inside remove, and no call was made
\* since
stoppedInRemove(p) == proc[p].crashed /\ proc[p].pc \in RemovePcs

\* C17: when execution stops inside remove after SPIFFS.remove(dbPath) and
\* before SPIFFS.rename, no file is at the store path: count() is 0 and
\* query and exists fail for every key; when it stops anywhere else inside
\* remove, the store path holds the file as it was when the call began or
\* the compacted file.
C17_CrashInRemove ==
    \A p \in Callers :
        stoppedInRemove(p) =>
            IF proc[p].pc = "rm_rename"
            THEN /\ fs[dbPath] = NoFile
                 /\ count(T, fs, NF) = 0
                 /\ \A k \in Keys :
                        ~query(T, fs, k, NF).ret /\ ~exists(T, fs, k, NF)
            ELSE \/ fs[dbPath] = prev[dbPath]
                 \/ fs[dbPath] = Flatten(keptSlots(prev, proc[p].key))

\* C17's case: execution stopped between the delete and the rename of a
\* remove on a store with two live records; both are gone.
C17_Witness ==
    /\ stoppedInRemove(1)
    /\ proc[1].pc = "rm_rename"
    /\ proc[1].op = "remove"
    /\ count(T, prev, NF) = 2
    /\ count(T, fs, NF) = 0

\* C17's other cases: execution stopped after the rename, the compacted
\* file in place; execution stopped while the kept record was being copied,
\* the original in place.
C17_WitnessCompacted ==
    /\ stoppedInRemove(1)
    /\ proc[1].pc = "rm_return"
    /\ count(T, prev, NF) = 2
    /\ fs[dbPath] # prev[dbPath]
    /\ count(T, fs, NF) = 1

C17_WitnessOriginal ==
    /\ stoppedInRemove(1)
    /\ proc[1].pc = "rm_close_src"
    /\ proc[1].found
    /\ count(T, prev, NF) = 2
    /\ fs[dbPath] = prev[dbPath]

\* a key whose insert returned true, and no remove of it since, has no live
\* record
lost == \E k \in GoodKeys : acked[k] # NoData /\ ~found(fs, k)

\* C18, the serialized part: with the calls of the two callers serialized,
\* whenever no call is running every key whose insert returned true and
\* that was not removed has a live record, and no two live records share a
\* key.
C18_SerializedSafe == quiescent => (~lost /\ C2_OneLivePerKey)

\* C18, the interleaved part: states that two interleaving callers reach
\* with T = uint8_t. An acknowledged insert is lost; two live records
\* share a key.
C18_InterleavedLoss == quiescent /\ T = TypeU8 /\ lost /\ C2_OneLivePerKey

C18_InterleavedDuplicate == quiescent /\ T = TypeU8 /\ ~C2_OneLivePerKey

\* the calls that only read
ReadCalls == {"query", "exists", "count", "selectAll"}

\* C19: query, exists, count and selectAll leave both files as they were,
\* a missing store file still missing; exists returns what query returns
\* for the key; and the call made again on the store as it is now gives
\* what it gave: selectAll the same visits in the same order, count the
\* same number, query the same result and value.
C19_ReadsLeaveStore ==
    last.op \in ReadCalls =>
        /\ fs = prev
        /\ last.op = "exists" => last.ret = query(T, fs, last.key, NF).ret
        /\ last.op = "selectAll" => selectAll(T, fs, NF) = last.calls
        /\ last.op = "count" => count(T, fs, NF) = last.n
        /\ last.op = "query" =>
               /\ query(T, fs, last.key, NF).ret = last.ret
               /\ query(T, fs, last.key, NF).data = last.out

\* C19's case: query ran while the store file was missing.
C19_Witness ==
    /\ last.op = "query" /\ ~last.key.null
    /\ prev[dbPath] = NoFile

\* C19's other cases: selectAll, and exists for a key that query finds, ran
\* over a file with a checksum-invalid slot, a live record and stray bytes.
C19_WitnessSelectAll ==
    /\ last.op = "selectAll"
    /\ last.calls # <<>>
    /\ liveIdx(fs) # 1..Len(dbSlots(fs))
    /\ strayBytes(fs) > 0

C19_WitnessExists ==
    /\ last.op = "exists" /\ last.ret
    /\ liveIdx(fs) # 1..Len(dbSlots(fs))
    /\ strayBytes(fs) > 0

\* the calls that open files
HandleCalls == {"insert", "remove", "query", "exists", "count", "selectAll"}

\* +1 for an open that succeeds, -1 for a close, 0 for any other operation
\* and for an open that fails; the store file is opened for reading before
\* the call changes anything
handleDelta(o) ==
    IF o = "open(dbPath,r)"
    THEN (IF prev[dbPath] # NoFile /\ faults.openR THEN 1 ELSE 0)
    ELSE IF o = "open(temp,w)" THEN (IF faults.openW THEN 1 ELSE 0)
    ELSE IF o = "open(dbPath,a)" THEN (IF faults.openA THEN 1 ELSE 0)
    ELSE IF o \in {"close(src)", "close(dst)", "close(file)"} THEN 0 - 1
    ELSE 0

RECURSIVE handlesOpen(_, _)
\* the handles open after the first k operations of ops
handlesOpen(ops, k) ==
    IF k = 0 THEN 0 ELSE handlesOpen(ops, k - 1) + handleDelta(ops[k])

\* C20: when insert, query, exists, remove, count or selectAll returns,
\* every file the call opened has been closed, and no close came without
\* its open.
C20_NoHandleLeft ==
    last.op \in HandleCalls =>
        /\ handlesOpen(last.ops, Len(last.ops)) = 0
        /\ \A k \in 1..Len(last.ops) : handlesOpen(last.ops, k) >= 0

\* C20's case: remove opened the store file, could not open /temp.db and
\* returned.
C20_Witness ==
    /\ last.op = "remove"
    /\ ~faults.openW
    /\ prev[dbPath] # NoFile
    /\ last.ops = <<"open(dbPath,r)", "open(temp,w)", "close(src)">>

\* C20's other cases: insert returned on a short write; remove returned
\* true with both files open during its scan; query returned from inside
\* its loop.
C20_WitnessShortWrite ==
    /\ last.op = "insert" /\ ~last.ret
    /\ faults.appended < sizeofRecord(T)
    /\ made(last.ops, "close(file)")

C20_WitnessRemoved ==
    /\ last.op = "remove" /\ last.ret
    /\ handlesOpen(last.ops, 2) = 2

C20_WitnessQuery ==
    /\ last.op = "query" /\ last.ret
    /\ last.ops = <<"open(dbPath,r)", "close(file)">>

=============================================================================
